---------------------------- MODULE Spec2Model ----------------------------
(***************************************************************************)
(* A model of src/plupy.py (control routines of the plume experiment).     *)
(*                                                                         *)
(*   SpecDecoder  arduino_UNO.read_timestamps, called on a byte stream     *)
(*                with legacy=True and with legacy=False                   *)
(*   SpecCleaner  arduino_UNO.channel_cleaner, called on a list of         *)
(*                channel codes                                            *)
(*   SpecCommand  the module-level function command() talking to a device  *)
(*                on a serial line, called a few times in a row            *)
(*   SpecPulse    set_channel of classes pulse_generator and BNC_505, each *)
(*                a list of calls of command()                             *)
(*   SpecStepper  the moves of class stepper_motor, each a list of calls   *)
(*                of command() and waits for the motor to stop             *)
(*   SpecScan     stepper_motor.new_position called again and again on a   *)
(*                stage whose motors do what they are told                 *)
(*   SpecObject   the same scan with calls of the other stepper_motor      *)
(*                operations between the calls of new_position             *)
(*   SpecStart    arduino_UNO.start on its own serial channel              *)
(*   SpecScope    the operations of class oscilloscope on a VISA resource  *)
(*   SpecCommandFair  one call of command(), its loop followed past the    *)
(*                rounds io_log records, the program always taking its     *)
(*                next step                                                *)
(*                                                                         *)
(* Python values are held as follows.  A bytes object is a sequence of     *)
(* integers 0..255.  A str is a sequence of one-character strings.  An     *)
(* integer that can exceed 2^31 - 1 (a 32-bit word of the stream) is held  *)
(* as the record [shr5 |-> w >> 5, and1F |-> w & 0x1F], the only two views *)
(* of it the code ever takes.  The commands and replies of the serial and  *)
(* VISA devices are held as strings, built with \o as the code builds them *)
(* with +.                                                                 *)
(***************************************************************************)
EXTENDS Integers, Sequences, FiniteSets

VARIABLES
    binary_stream,   \* read_timestamps: the argument of both calls
    ret_legacy,      \* read_timestamps(binary_stream, legacy=True): frame at return
    ret_int,         \* read_timestamps(binary_stream, legacy=False): frame at return
    cha_info,        \* channel_cleaner: the argument
    ret_cleaner,     \* channel_cleaner(cha_info): frame at return
    repeat_arg,      \* command: the repeat argument as passed by the caller
    good_response,   \* command: the good_response argument
    repeat,          \* command: the local variable repeat
    res,             \* command: the local variable res
    device,          \* command: state of the serial channel, "none" | "open" | "closed"
    cmd_pc,          \* command: position in the body
    io_log,          \* command: writes and reads made on the channel, in order
    ret_command,     \* command: the returned value
    command_arg,     \* command: the command argument
    n_open,          \* number of serial channels open in the process
    calls_log,       \* the calls of command that have ended, in order
    osc_op,          \* oscilloscope: the operation called and its arguments
    osc_pc,          \* oscilloscope: position in the operation
    scope,           \* oscilloscope: the local variable scope
    osc_k,           \* oscilloscope: number of the next statement after the try
    scope_log,       \* oscilloscope: what the operation sent to the instrument
    osc_printed,     \* oscilloscope: lines the operation printed
    osc_error,       \* oscilloscope: the exception that ended the operation
    osc_ret,         \* oscilloscope: the returned value
    n_scope_open,    \* sessions of the resource manager rm that are open
    osc_done,        \* oscilloscope: operations that have ended
    op,              \* the operation (a method that calls command) and its arguments
    op_pc,           \* the operation: position
    op_k,            \* the operation: number of the statement it is at
    op_res,          \* the operation: local variable res
    op_ret,          \* the operation: the returned value
    uno_pc,          \* start: position
    UNO,             \* start: the serial channel of the with block
    first_com,       \* start: local variable first_com
    hex_stream,      \* start: local variable hex_stream
    uno_decoded,     \* start: what read_timestamps(hex_stream) returned
    uno_log,         \* start: writes and reads on the channel, in order
    uno_ret,         \* start: the returned value
    b1_flag,         \* stepper_motor: self.b1_flag
    b2_flag,         \* stepper_motor: self.b2_flag
    end,             \* stepper_motor: self.end
    steps,           \* new_position: argument steps
    size,            \* new_position: argument size
    motor1,          \* the stage: position of the motor of board 1 (forward / back)
    motor2,          \* the stage: position of the motor of board 2 (left / right)
    from_home,       \* the stage was at (0, 0) when the stepper_motor object was made
    others,          \* the calls of the other stepper_motor operations made so far
    moves            \* the moves new_position has made, in order

decoder_vars == <<binary_stream, ret_legacy, ret_int>>
cleaner_vars == <<cha_info, ret_cleaner>>
command_vars == <<repeat_arg, good_response, repeat, res, device, cmd_pc, io_log, ret_command>>
port_vars == <<command_arg, n_open, calls_log>>
osc_vars == <<osc_op, osc_pc, scope, osc_k, scope_log, osc_printed, osc_error, osc_ret,
              n_scope_open, osc_done>>
op_vars == <<op, op_pc, op_k, op_res, op_ret>>
uno_vars == <<uno_pc, UNO, first_com, hex_stream, uno_decoded, uno_log, uno_ret>>
scan_vars == <<b1_flag, b2_flag, end, steps, size, motor1, motor2, from_home, others,
              moves>>
vars == <<decoder_vars, cleaner_vars, command_vars, port_vars, osc_vars, op_vars, uno_vars,
          scan_vars>>

\* what the actions of command leave alone
outside_command == <<decoder_vars, cleaner_vars, osc_vars, op_vars, uno_vars, scan_vars>>
\* what the operations of class oscilloscope leave alone
outside_scope == <<decoder_vars, cleaner_vars, command_vars, port_vars, op_vars, uno_vars,
                  scan_vars>>
\* what the operations that call command leave alone
outside_op == <<decoder_vars, cleaner_vars, osc_vars, uno_vars, scan_vars>>
\* what start leaves alone
outside_start == <<decoder_vars, cleaner_vars, command_vars, command_arg, calls_log, osc_vars,
                   op_vars, scan_vars>>
\* what new_position leaves alone
outside_scan == <<decoder_vars, cleaner_vars, command_vars, port_vars, osc_vars, op_vars, uno_vars>>

-----------------------------------------------------------------------------
(* Bounds of the model                                                     *)

\* longest stream made of arbitrary bytes of ByteVals
MaxStreamLen == 8
\* longest stream made of whole words of WordVals
MaxWords == 3
\* longest list of channel codes given to channel_cleaner
MaxPatterns == 3
\* most write/read rounds of one command call the model follows
MaxRounds == 3
\* most calls of command in a row
MaxCalls == 2
\* most oscilloscope operations in a row
MaxScopeOps == 2
\* most calls of command in one operation
MaxOpCalls == 7
\* most lines start reads
MaxLines == 4
\* largest size of the sample, largest step, most calls of new_position
MaxSize == 4
MaxSteps == 2
MaxScanCalls == 12
\* most calls of the other stepper_motor operations during a scan
MaxOthers == 1

\* 0x00: flag clear, pattern 0; 0x16: flag set, pattern 6; 0xE9: flag clear,
\* pattern 9, low counter bits 111
ByteVals == {0, 22, 233}

\* whole words, low byte first: counter 0 / pattern 6; counter 0 / flagged;
\* counter 1 / pattern 15; counter 2^27-1 / pattern 1; counter 2^27-1 /
\* flagged; counter 262146 / pattern 8
WordVals == { <<6, 0, 0, 0>>, <<31, 0, 0, 0>>, <<47, 0, 0, 0>>,
              <<225, 255, 255, 255>>, <<240, 255, 255, 255>>, <<72, 0, 128, 0>> }

RECURSIVE Concat(_)
Concat(ws) == IF ws = <<>> THEN <<>> ELSE Head(ws) \o Concat(Tail(ws))

ByteStreams == UNION { [1..n -> ByteVals] : n \in 0..MaxStreamLen }
WordStreams == { Concat(ws) : ws \in UNION { [1..n -> WordVals] : n \in 0..MaxWords } }
Streams == ByteStreams \cup WordStreams

-----------------------------------------------------------------------------
(* Python built-ins used by read_timestamps                                *)

\* s[::-1]
Reverse(s) == [i \in 1..Len(s) |-> s[Len(s) + 1 - i]]

\* s[i:j] with 0 <= i <= j: the end is clamped to len(s)
Slice(s, i, j) == SubSeq(s, i + 1, IF j < Len(s) THEN j ELSE Len(s))

HexDigits == <<"0", "1", "2", "3", "4", "5", "6", "7",
               "8", "9", "a", "b", "c", "d", "e", "f">>

\* bytes.hex(): two lower-case digits per byte, high nibble first
hex(bs) == [i \in 1..(2 * Len(bs)) |->
              IF i % 2 = 1 THEN HexDigits[(bs[(i + 1) \div 2] \div 16) + 1]
                           ELSE HexDigits[(bs[i \div 2] % 16) + 1]]

HexVal(c) == (CHOOSE k \in 1..16 : HexDigits[k] = c) - 1

\* int(s, 16) raises ValueError on the empty string
int16_raises(s) == s = <<>>

\* int(s, 16) of a string of hex digits, most significant first, as
\* [shr5 |-> v >> 5, and1F |-> v & 0x1F]:  (32q + r) * 16 + d = 32 * (16q) + (16r + d)
RECURSIVE int16(_)
int16(s) ==
    IF s = <<>> THEN [shr5 |-> 0, and1F |-> 0]
    ELSE LET v == int16(SubSeq(s, 1, Len(s) - 1))
             t == v.and1F * 16 + HexVal(s[Len(s)])
         IN  [shr5 |-> v.shr5 * 16 + (t \div 32), and1F |-> t % 32]

\* range(0, n, 8) as a list
range8(n) == [k \in 1..((n + 7) \div 8) |-> 8 * (k - 1)]

\* bin(n) without the 0b prefix, most significant bit first
RECURSIVE bin(_)
bin(n) == IF n < 2 THEN <<HexDigits[n + 1]>>
          ELSE bin(n \div 2) \o <<HexDigits[(n % 2) + 1]>>

\* str.format's zero fill: pad on the left with "0" up to the width
RECURSIVE zfill(_, _)
zfill(s, width) == IF Len(s) >= width THEN s ELSE zfill(<<"0">> \o s, width)

\* fault variant of format_04b: "{0:b}", the zero fill left out
format_b_unpadded(n) == bin(n)

\* "{0:04b}".format(n)
format_04b(n) == zfill(bin(n), 4)

-----------------------------------------------------------------------------
(* arduino_UNO.read_timestamps                                             *)

periode_duration == 134217728

bytes_hex(stream) == hex(Reverse(stream))

\* fault variant of chunks: the short last chunk dropped
chunks_whole_only(h) == [k \in 1..(Len(h) \div 8) |-> Slice(h, 8 * (k - 1), 8 * (k - 1) + 8)]

\* [bytes_hex[i : i + 8] for i in range(0, len(bytes_hex), 8)]
chunks(h) == [k \in 1..Len(range8(Len(h))) |-> Slice(h, range8(Len(h))[k], range8(Len(h))[k] + 8)]

\* fault variant of ts_word_list: the final [::-1] left out
ts_word_list_not_reversed(stream) ==
    [k \in 1..Len(chunks(bytes_hex(stream))) |-> int16(chunks(bytes_hex(stream))[k])]

\* [int(chunk, 16) for chunk in ...][::-1]
ts_word_list(stream) ==
    Reverse([k \in 1..Len(chunks(bytes_hex(stream))) |-> int16(chunks(bytes_hex(stream))[k])])

\* the list comprehension raises when some int() does
ts_word_list_raises(stream) ==
    \E k \in 1..Len(chunks(bytes_hex(stream))) : int16_raises(chunks(bytes_hex(stream))[k])

\* fault variant of is_rollover: <= in place of <
is_rollover_or_equal(prev_ts, time_stamp) == prev_ts # -1 /\ time_stamp <= prev_ts

\* fault variant of is_rollover: rollovers never detected
never_rollover(prev_ts, time_stamp) == FALSE

\* prev_ts != -1 and time_stamp < prev_ts
is_rollover(prev_ts, time_stamp) == prev_ts # -1 /\ time_stamp < prev_ts

\* (pattern & 0x10) == 0
is_valid(pattern) == (pattern \div 16) % 2 = 0

\* fault variant of channel_bits: mask 0x7 in place of 0xF
channel_bits_3(pattern) == pattern % 8

\* pattern & 0xF
channel_bits(pattern) == pattern % 16

\* the entry appended to event_channel_list
channel_entry(pattern, legacy) ==
    IF legacy THEN format_04b(channel_bits(pattern)) ELSE channel_bits(pattern)

\* the locals before the first iteration
loop_init == [periode_count |-> 0, prev_ts |-> -1, ts_list |-> <<>>, event_channel_list |-> <<>>]

\* fault variant of loop_body: the rollover test and the update of prev_ts
\* moved inside the validity test, so flagged words are skipped altogether
loop_body_valid_only(st, ts_word, legacy) ==
    LET time_stamp == ts_word.shr5
        pattern == ts_word.and1F
        count == IF is_valid(pattern) /\ is_rollover(st.prev_ts, time_stamp)
                 THEN st.periode_count + 1 ELSE st.periode_count
    IN  IF is_valid(pattern)
        THEN [periode_count |-> count, prev_ts |-> time_stamp,
              ts_list |-> Append(st.ts_list, time_stamp + periode_duration * count),
              event_channel_list |-> Append(st.event_channel_list, channel_entry(pattern, legacy))]
        ELSE st

\* one iteration of "for ts_word in ts_word_list"
loop_body(st, ts_word, legacy) ==
    LET time_stamp == ts_word.shr5
        pattern == ts_word.and1F
        count == IF is_rollover(st.prev_ts, time_stamp)
                 THEN st.periode_count + 1 ELSE st.periode_count
    IN  [periode_count |-> count,
         prev_ts |-> time_stamp,
         ts_list |-> IF is_valid(pattern)
                     THEN Append(st.ts_list, time_stamp + periode_duration * count)
                     ELSE st.ts_list,
         event_channel_list |-> IF is_valid(pattern)
                                THEN Append(st.event_channel_list, channel_entry(pattern, legacy))
                                ELSE st.event_channel_list]

\* the locals after the first n iterations
RECURSIVE for_loop(_, _, _)
for_loop(words, n, legacy) ==
    IF n = 0 THEN loop_init ELSE loop_body(for_loop(words, n - 1, legacy), words[n], legacy)

\* fault variant of times_2: the scaling left out
times_1(l) == l

\* np.array(ts_list, dtype="int64") * 2; below 2^35 rollovers int64 does not wrap
times_2(l) == [i \in 1..Len(l) |-> l[i] * 2]

no_return == [returned |-> FALSE, raised |-> FALSE, ts_word_list |-> <<>>, periode_count |-> 0,
              ts_list |-> <<>>, event_channel_list |-> <<>>]

\* the call: the word list and the rollover count it ended with, and the pair returned
read_timestamps(stream, legacy) ==
    IF ts_word_list_raises(stream)
    THEN [no_return EXCEPT !.raised = TRUE]
    ELSE LET words == ts_word_list(stream)
             st == for_loop(words, Len(words), legacy)
         IN  [returned |-> TRUE, raised |-> FALSE, ts_word_list |-> words,
              periode_count |-> st.periode_count,
              ts_list |-> times_2(st.ts_list),
              event_channel_list |-> st.event_channel_list]

call_legacy ==
    /\ ~ret_legacy.returned /\ ~ret_legacy.raised
    /\ ret_legacy' = read_timestamps(binary_stream, TRUE)
    /\ UNCHANGED <<binary_stream, ret_int, cleaner_vars, command_vars, port_vars, osc_vars, op_vars, uno_vars,
                   scan_vars>>

call_int ==
    /\ ~ret_int.returned /\ ~ret_int.raised
    /\ ret_int' = read_timestamps(binary_stream, FALSE)
    /\ UNCHANGED <<binary_stream, ret_legacy, cleaner_vars, command_vars, port_vars, osc_vars, op_vars, uno_vars,
                   scan_vars>>

-----------------------------------------------------------------------------
(* arduino_UNO.channel_cleaner                                             *)

\* s[i] with a 0-based index
item(s, i) == s[i + 1]

\* the lists read_timestamps hands over with legacy=True: 4-character codes
CodeLists == UNION { [1..n -> {format_04b(p) : p \in 0..15}] : n \in 0..MaxPatterns }

\* the locals before the first iteration
cleaner_init == [cha_clean |-> <<>>, counts_1 |-> 0, counts_2 |-> 0, counts_3 |-> 0, counts_4 |-> 0]

\* fault variant of cleaner_body: the code read least significant bit first
cleaner_body_lsb_first(st, cha_list) ==
    LET channel == (IF item(cha_list, 3) = "1" THEN <<"CH4">> ELSE <<>>)
                   \o (IF item(cha_list, 2) = "1" THEN <<"CH3">> ELSE <<>>)
                   \o (IF item(cha_list, 1) = "1" THEN <<"CH2">> ELSE <<>>)
                   \o (IF item(cha_list, 0) = "1" THEN <<"CH1">> ELSE <<>>)
    IN  [cha_clean |-> Append(st.cha_clean, channel),
         counts_1 |-> st.counts_1 + (IF item(cha_list, 0) = "1" THEN 1 ELSE 0),
         counts_2 |-> st.counts_2 + (IF item(cha_list, 1) = "1" THEN 1 ELSE 0),
         counts_3 |-> st.counts_3 + (IF item(cha_list, 2) = "1" THEN 1 ELSE 0),
         counts_4 |-> st.counts_4 + (IF item(cha_list, 3) = "1" THEN 1 ELSE 0)]

\* one iteration of "for cha_list in cha_info"
cleaner_body(st, cha_list) ==
    LET channel == (IF item(cha_list, 0) = "1" THEN <<"CH4">> ELSE <<>>)
                   \o (IF item(cha_list, 1) = "1" THEN <<"CH3">> ELSE <<>>)
                   \o (IF item(cha_list, 2) = "1" THEN <<"CH2">> ELSE <<>>)
                   \o (IF item(cha_list, 3) = "1" THEN <<"CH1">> ELSE <<>>)
    IN  [cha_clean |-> Append(st.cha_clean, channel),
         counts_1 |-> st.counts_1 + (IF item(cha_list, 3) = "1" THEN 1 ELSE 0),
         counts_2 |-> st.counts_2 + (IF item(cha_list, 2) = "1" THEN 1 ELSE 0),
         counts_3 |-> st.counts_3 + (IF item(cha_list, 1) = "1" THEN 1 ELSE 0),
         counts_4 |-> st.counts_4 + (IF item(cha_list, 0) = "1" THEN 1 ELSE 0)]

\* the locals after the first n iterations
RECURSIVE cleaner_loop(_, _)
cleaner_loop(info, n) ==
    IF n = 0 THEN cleaner_init ELSE cleaner_body(cleaner_loop(info, n - 1), info[n])

no_clean == [returned |-> FALSE, cha_clean |-> <<>>, counts |-> <<0, 0, 0, 0>>]

\* return cha_clean, (counts_1, counts_2, counts_3, counts_4)
channel_cleaner(info) ==
    LET st == cleaner_loop(info, Len(info))
    IN  [returned |-> TRUE, cha_clean |-> st.cha_clean,
         counts |-> <<st.counts_1, st.counts_2, st.counts_3, st.counts_4>>]

call_cleaner ==
    /\ ~ret_cleaner.returned
    /\ ret_cleaner' = channel_cleaner(cha_info)
    /\ UNCHANGED <<cha_info, decoder_vars, command_vars, port_vars, osc_vars, op_vars, uno_vars,
                   scan_vars>>

-----------------------------------------------------------------------------
(* command(): one call on one serial channel                               *)

\* what device.readline() can hand back: the acknowledgment, nothing within
\* the timeout, an error reply, the stepper controller's 'Y\r'
Responses == {"ok\r\n", "", "?1\r\n", "Y\r"}
\* what the stepper driver may send back: stopped, still moving, nothing
StepperResponses == {"Y\r", "N\r", ""}
\* what device.readline() may give, by the device the call talks to
readline_results == IF op.cls = "stepper_motor" THEN StepperResponses ELSE Responses
GoodResponses == {"ok\r\n", "Y\r"}

\* a local not yet assigned
unbound == "<unbound>"

io(o, data) == [op |-> o, data |-> data]
writes_made == Len(SelectSeq(io_log, LAMBDA x : x.op = "write"))

\* how a call ended: outcome is "returned" or "raised"
call_record(outcome, value) ==
    [command |-> command_arg, repeat |-> repeat_arg, outcome |-> outcome, ret |-> value]

\* with initialize_device(...) as device: serial.Serial(...) opens the port
cmd_open ==
    /\ cmd_pc = "idle"
    /\ device' = "open"
    /\ n_open' = n_open + 1
    /\ repeat' = repeat_arg
    /\ cmd_pc' = "write"
    /\ UNCHANGED <<repeat_arg, good_response, res, io_log, ret_command, command_arg, calls_log,
                   outside_command>>

\* serial.Serial(...) raises (no such port, port busy): no channel exists,
\* the exception leaves command
cmd_open_raises ==
    /\ cmd_pc = "idle"
    /\ cmd_pc' = "raised"
    /\ calls_log' = Append(calls_log, call_record("raised", unbound))
    /\ UNCHANGED <<repeat_arg, good_response, repeat, res, device, io_log, ret_command,
                   command_arg, n_open, outside_command>>

\* device.write(str.encode(command))
cmd_write ==
    /\ cmd_pc = "write"
    /\ writes_made < MaxRounds
    /\ io_log' = Append(io_log, io("write", command_arg))
    /\ cmd_pc' = "read"
    /\ UNCHANGED <<repeat_arg, good_response, repeat, res, device, ret_command,
                   port_vars, outside_command>>

\* device.write once io_log holds MaxRounds rounds: the round is made, not recorded
cmd_write_unlogged ==
    /\ cmd_pc = "write"
    /\ writes_made >= MaxRounds
    /\ cmd_pc' = "read_unlogged"
    /\ UNCHANGED <<repeat_arg, good_response, repeat, res, device, io_log, ret_command,
                   port_vars, outside_command>>

\* res = device.readline()
cmd_readline ==
    /\ cmd_pc = "read"
    /\ \E r \in readline_results :
          /\ res' = r
          /\ io_log' = Append(io_log, io("read", r))
    /\ cmd_pc' = "check"
    /\ UNCHANGED <<repeat_arg, good_response, repeat, device, ret_command,
                   port_vars, outside_command>>

\* res = device.readline() of a round that is not recorded
cmd_readline_unlogged ==
    /\ cmd_pc = "read_unlogged"
    /\ \E r \in readline_results : res' = r
    /\ cmd_pc' = "check"
    /\ UNCHANGED <<repeat_arg, good_response, repeat, device, io_log, ret_command,
                   port_vars, outside_command>>

\* fault variant of cmd_io_raises: the exception leaves without the finally clause
cmd_io_raises_no_close ==
    /\ cmd_pc \in {"write", "read", "read_unlogged"}
    /\ cmd_pc' = "raised"
    /\ calls_log' = Append(calls_log, call_record("raised", unbound))
    /\ UNCHANGED <<repeat_arg, good_response, repeat, res, device, io_log, ret_command,
                   command_arg, n_open, outside_command>>

\* device.write or device.readline raises (SerialException): the finally
\* clause of initialize_device closes the channel, the exception leaves command
cmd_io_raises ==
    /\ cmd_pc \in {"write", "read", "read_unlogged"}
    /\ device' = "closed"
    /\ n_open' = n_open - 1
    /\ cmd_pc' = "raised"
    /\ calls_log' = Append(calls_log, call_record("raised", unbound))
    /\ UNCHANGED <<repeat_arg, good_response, repeat, res, io_log, ret_command,
                   command_arg, outside_command>>

\* fault variant of cmd_check: != in place of ==
cmd_check_inverted ==
    /\ cmd_pc = "check"
    /\ repeat' = (IF res # good_response THEN FALSE ELSE repeat)
    /\ cmd_pc' = (IF ~repeat' THEN "exit" ELSE "write")
    /\ UNCHANGED <<repeat_arg, good_response, res, device, io_log, ret_command,
                   port_vars, outside_command>>

\* fault variant of cmd_check: the loop gives up after two rounds
cmd_check_two_tries ==
    /\ cmd_pc = "check"
    /\ repeat' = (IF res = good_response \/ writes_made >= 2 THEN FALSE ELSE repeat)
    /\ cmd_pc' = (IF ~repeat' THEN "exit" ELSE "write")
    /\ UNCHANGED <<repeat_arg, good_response, res, device, io_log, ret_command,
                   port_vars, outside_command>>

\* fault variant of cmd_check: the loop goes on until the good response, repeat or not
cmd_check_always_repeats ==
    /\ cmd_pc = "check"
    /\ repeat' = (IF res = good_response THEN FALSE ELSE repeat)
    /\ cmd_pc' = (IF res = good_response THEN "exit" ELSE "write")
    /\ UNCHANGED <<repeat_arg, good_response, res, device, io_log, ret_command,
                   port_vars, outside_command>>

\* if res == good_response: repeat = False;  if not repeat: break
cmd_check ==
    /\ cmd_pc = "check"
    /\ repeat' = (IF res = good_response THEN FALSE ELSE repeat)
    /\ cmd_pc' = (IF ~repeat' THEN "exit" ELSE "write")
    /\ UNCHANGED <<repeat_arg, good_response, res, device, io_log, ret_command,
                   port_vars, outside_command>>

\* leaving the with block closes the channel (finally: device.close()); return res
cmd_return ==
    /\ cmd_pc = "exit"
    /\ device' = "closed"
    /\ n_open' = n_open - 1
    /\ ret_command' = res
    /\ cmd_pc' = "returned"
    /\ calls_log' = Append(calls_log, call_record("returned", res))
    /\ UNCHANGED <<repeat_arg, good_response, repeat, res, io_log, command_arg, outside_command>>

\* the commands given in the calls followed on their own
CommandArgs == {":PULSE0:STATE ON\n", "F \r"}

\* the frame of a call that is entered with the given arguments
enter_command(cmd, rep, good) ==
    /\ command_arg' = cmd
    /\ repeat_arg' = rep
    /\ good_response' = good
    /\ repeat' = rep
    /\ res' = unbound
    /\ device' = "none"
    /\ io_log' = <<>>
    /\ ret_command' = unbound
    /\ cmd_pc' = "idle"

\* a caller that calls command again once the call before has ended, by
\* return or, the exception caught, by raise
next_call ==
    /\ cmd_pc \in {"returned", "raised"}
    /\ Len(calls_log) < MaxCalls
    /\ \E cmd \in CommandArgs, rep \in BOOLEAN, good \in GoodResponses :
          enter_command(cmd, rep, good)
    /\ UNCHANGED <<n_open, calls_log, outside_command>>

-----------------------------------------------------------------------------
(* arduino_UNO.start: the handshake and the first line that is decoded.    *)
(* Lines are bytes objects, held as sequences of byte values.              *)

\* str.encode("start\n"), b"start\n"
start_newline == <<115, 116, 97, 114, 116, 10>>

\* the lines the decoding is not returned for: b'', b"start", b'\r\n', b"a"
rejected_lines == {<< >>, <<115, 116, 97, 114, 116>>, <<13, 10>>, <<97>>}

\* what UNO.readline() may give: the Arduino's "start\n", the lines above,
\* two lines of time-stamp words
UnoLines == {start_newline} \cup rejected_lines \cup {<<38, 0, 0, 0, 10>>, <<233, 255, 255, 255, 22, 0, 0, 0>>}

\* convert_units(counts, 'ns'): the counts as they are
convert_units_ns(counts_ns) == counts_ns

\* return counts, channels, ch_counts
start_returns(decoded) ==
    [returned |-> TRUE,
     counts |-> convert_units_ns(decoded.ts_list),
     channels |-> channel_cleaner(decoded.event_channel_list).cha_clean,
     ch_counts |-> channel_cleaner(decoded.event_channel_list).counts]
start_not_returned == [returned |-> FALSE, counts |-> <<>>, channels |-> <<>>, ch_counts |-> <<0, 0, 0, 0>>]

lines_read == Len(SelectSeq(uno_log, LAMBDA e : e.op = "read"))

\* with initialize_device(...) as UNO:  first_com = b""
uno_open ==
    /\ uno_pc = "idle"
    /\ UNO' = "open"
    /\ n_open' = n_open + 1
    /\ first_com' = << >>
    /\ uno_pc' = "loop"
    /\ UNCHANGED <<hex_stream, uno_decoded, uno_log, uno_ret, outside_start>>

\* serial.Serial(...) raises: no channel, the exception leaves start
uno_open_raises ==
    /\ uno_pc = "idle"
    /\ uno_pc' = "raised"
    /\ UNCHANGED <<UNO, first_com, hex_stream, uno_decoded, uno_log, uno_ret, n_open,
                   outside_start>>

\* fault variant of uno_write: start is written before every line read
uno_write_every_round ==
    /\ uno_pc = "loop"
    /\ lines_read < MaxLines
    /\ uno_log' = Append(uno_log, io("write", start_newline))
    /\ uno_pc' = IF first_com # start_newline THEN "read_first" ELSE "read_stream"
    /\ UNCHANGED <<UNO, first_com, hex_stream, uno_decoded, uno_ret, n_open, outside_start>>

\* while first_com != b"start\n": UNO.write(str.encode("start\n")); time.sleep(0.1)
uno_write ==
    /\ uno_pc = "loop"
    /\ first_com # start_newline
    /\ lines_read < MaxLines
    /\ uno_log' = Append(uno_log, io("write", start_newline))
    /\ uno_pc' = "read_first"
    /\ UNCHANGED <<UNO, first_com, hex_stream, uno_decoded, uno_ret, n_open, outside_start>>

\* first_com = UNO.readline()
uno_read_first ==
    /\ uno_pc = "read_first"
    /\ \E line \in UnoLines :
          /\ first_com' = line
          /\ uno_log' = Append(uno_log, io("read", line))
    /\ uno_pc' = "loop"
    /\ UNCHANGED <<UNO, hex_stream, uno_decoded, uno_ret, n_open, outside_start>>

\* the inner loop is over: control goes to the read of hex_stream
uno_handshake_done ==
    /\ uno_pc = "loop"
    /\ first_com = start_newline
    /\ lines_read < MaxLines
    /\ uno_pc' = "read_stream"
    /\ UNCHANGED <<UNO, first_com, hex_stream, uno_decoded, uno_log, uno_ret, n_open,
                   outside_start>>

\* hex_stream = UNO.readline(); [counts, cha_info] = self.read_timestamps(hex_stream)
uno_read_stream ==
    /\ uno_pc = "read_stream"
    /\ \E line \in UnoLines :
          /\ hex_stream' = line
          /\ uno_decoded' = read_timestamps(line, TRUE)
          /\ uno_log' = Append(uno_log, io("read", line))
    /\ uno_pc' = "check"
    /\ UNCHANGED <<UNO, first_com, uno_ret, n_open, outside_start>>

\* if hex_stream != b'' and != b"start" and != b'\r\n' and != b"a": the
\* results are returned and the with block closes the channel; else the
\* outer loop goes round
uno_check ==
    /\ uno_pc = "check"
    /\ IF hex_stream \notin rejected_lines
       THEN /\ uno_ret' = start_returns(uno_decoded)
            /\ UNO' = "closed"
            /\ n_open' = n_open - 1
            /\ uno_pc' = "returned"
       ELSE /\ uno_pc' = "loop"
            /\ UNCHANGED <<uno_ret, UNO, n_open>>
    /\ UNCHANGED <<first_com, hex_stream, uno_decoded, uno_log, outside_start>>

\* UNO.write or UNO.readline raises: the finally clause of initialize_device
\* closes the channel, the exception leaves start
uno_io_raises ==
    /\ \/ uno_pc \in {"read_first", "read_stream"}
       \/ uno_pc = "loop" /\ first_com # start_newline
    /\ UNO' = "closed"
    /\ n_open' = n_open - 1
    /\ uno_pc' = "raised"
    /\ UNCHANGED <<first_com, hex_stream, uno_decoded, uno_log, uno_ret, outside_start>>

-----------------------------------------------------------------------------
(* Operations that are lists of calls of command: set_channel of           *)
(* pulse_generator and of BNC_505, the moves of stepper_motor.             *)

\* str(n) of Python for an int
Digit(d) == <<"0", "1", "2", "3", "4", "5", "6", "7", "8", "9">>[d + 1]
RECURSIVE str(_)
str(n) ==
    IF n < 0 THEN "-" \o str(0 - n)
    ELSE IF n < 10 THEN Digit(n)
    ELSE str(n \div 10) \o Digit(n % 10)

\* the arguments of an operation; those it does not take keep these values,
\* the optional ones their defaults
default_args ==
    [cls |-> "", name |-> "", channel |-> "", channel_n |-> 0, delay |-> 0, width |-> 0,
     amp |-> 3, mode |-> "TTL", ref |-> "T0", cmode |-> "SINGLE", enable |-> TRUE,
     steps |-> 0, x |-> 0, y |-> 0]

\* ord(channel) for the channel letters
ord(c) == CASE c = "A" -> 65 [] c = "B" -> 66 [] c = "C" -> 67 [] c = "D" -> 68

\* one statement of an operation: a call of command (keep: res = command(...)),
\* or self.wait()
call_item(cmd, rep, keep) == [kind |-> "call", command |-> cmd, repeat |-> rep, keep |-> keep]
wait_item == [kind |-> "wait", command |-> "F \r", repeat |-> FALSE, keep |-> FALSE]

\* fault variant of pulse_generator_set_channel: the commands are sent without repeat
pulse_generator_set_channel_no_repeat(a) ==
    LET channel_str == str(ord(a.channel) - 64)
        ref == IF a.ref # "T0" THEN "CH" \o a.ref ELSE a.ref
    IN  <<call_item(":PULSE" \o channel_str \o ":SYNC " \o ref \o "\n", FALSE, FALSE),
          call_item(":PULSE" \o channel_str \o ":CMODE " \o a.cmode \o "\n", FALSE, FALSE),
          call_item(":PULSE" \o channel_str \o ":OUTPUT:AMPLITUDE " \o str(a.amp) \o "V\n", FALSE, FALSE),
          call_item(":PULSE" \o channel_str \o ":DELAY " \o str(a.delay) \o "\n", FALSE, FALSE),
          call_item(":PULSE" \o channel_str \o ":WIDTH " \o str(a.width) \o "\n", FALSE, FALSE),
          call_item(":PULSE" \o channel_str \o ":OUTPUT:MODE " \o a.mode \o "\n", FALSE, FALSE),
          call_item(":PULSE" \o channel_str \o ":STATE " \o (IF a.enable THEN "ON" ELSE "OFF") \o "\n",
                    FALSE, FALSE)>>

\* pulse_generator.set_channel
pulse_generator_set_channel(a) ==
    LET channel_str == str(ord(a.channel) - 64)
        delay_str == str(a.delay)
        width_str == str(a.width)
        amp_str == str(a.amp)
        ref == IF a.ref # "T0" THEN "CH" \o a.ref ELSE a.ref
    IN  <<call_item(":PULSE" \o channel_str \o ":SYNC " \o ref \o "\n", TRUE, FALSE),
          call_item(":PULSE" \o channel_str \o ":CMODE " \o a.cmode \o "\n", TRUE, FALSE),
          call_item(":PULSE" \o channel_str \o ":OUTPUT:AMPLITUDE " \o amp_str \o "V\n", TRUE, FALSE),
          call_item(":PULSE" \o channel_str \o ":DELAY " \o delay_str \o "\n", TRUE, FALSE),
          call_item(":PULSE" \o channel_str \o ":WIDTH " \o width_str \o "\n", TRUE, FALSE),
          call_item(":PULSE" \o channel_str \o ":OUTPUT:MODE " \o a.mode \o "\n", TRUE, FALSE),
          IF a.enable
          THEN call_item(":PULSE" \o channel_str \o ":STATE ON\n", TRUE, FALSE)
          ELSE call_item(":PULSE" \o channel_str \o ":STATE OFF\n", TRUE, FALSE)>>

\* BNC_505.set_channel
BNC_505_set_channel(a) ==
    LET channel_str == str(a.channel_n)
        delay_str == str(a.delay)
        width_str == str(a.width)
        amp_str == str(a.amp)
    IN  <<call_item(":PULSE" \o channel_str \o ":SYNC " \o a.ref \o "\n", TRUE, FALSE),
          call_item(":PULSE" \o channel_str \o ":CMODE " \o a.cmode \o "\n", TRUE, FALSE),
          call_item(":PULSE" \o channel_str \o ":OUTPUT:AMPLITUDE " \o amp_str \o "V\n", TRUE, FALSE),
          call_item(":PULSE" \o channel_str \o ":DELAY " \o delay_str \o "\n", TRUE, FALSE),
          call_item(":PULSE" \o channel_str \o ":WIDTH " \o width_str \o "\n", TRUE, FALSE)>>

\* stepper_motor.back / forward / right / left
back(a) ==
    <<call_item("B1 \r", FALSE, FALSE), call_item("-" \o str(a.steps) \o "\r", FALSE, TRUE),
      wait_item>>
forward(a) ==
    <<call_item("B1 \r", FALSE, FALSE), call_item("+" \o str(a.steps) \o "\r", FALSE, TRUE),
      wait_item>>
right(a) ==
    <<call_item("B2 \r", FALSE, FALSE), call_item("-" \o str(a.steps) \o "\r", FALSE, TRUE),
      wait_item>>
left(a) ==
    <<call_item("B2 \r", FALSE, FALSE), call_item("+" \o str(a.steps) \o "\r", FALSE, TRUE),
      wait_item>>

\* stepper_motor.go_home
go_home ==
    <<call_item("B1 \r", FALSE, FALSE), call_item("G+0 \r", FALSE, FALSE), wait_item,
      call_item("B2 \r", FALSE, FALSE), call_item("G+0 \r", FALSE, FALSE), wait_item>>

\* stepper_motor.position
position(a) ==
    LET x_com == "G" \o str(a.x) \o " \r"
        y_com == "G" \o str(a.y) \o " \r"
    IN  <<call_item("B2 \r", FALSE, FALSE), call_item(x_com, FALSE, FALSE), wait_item,
          call_item("B1 \r", FALSE, FALSE), call_item(y_com, FALSE, FALSE), wait_item>>

\* the statements of an operation, in order
statements(a) ==
    CASE a.cls = "pulse_generator" -> pulse_generator_set_channel(a)
      [] a.cls = "BNC_505" -> BNC_505_set_channel(a)
      [] a.name = "back" -> back(a)
      [] a.name = "forward" -> forward(a)
      [] a.name = "right" -> right(a)
      [] a.name = "left" -> left(a)
      [] a.name = "go_home" -> go_home
      [] a.name = "position" -> position(a)

\* what an operation returns: True (set_channel), res (the four moves) or None
op_returns(kind, value) == [returned |-> TRUE, kind |-> kind, res |-> value]
not_returned == [returned |-> FALSE, kind |-> "", res |-> unbound]
return_value(a, r) ==
    IF a.name = "set_channel" THEN op_returns("True", unbound)
    ELSE IF a.name \in {"back", "forward", "right", "left"} THEN op_returns("res", r)
    ELSE op_returns("None", unbound)

\* the calls documented for set_channel of pulse_generator
PulseChannels == {"A", "B", "C", "D"}
PulseRefs == {"T0", "CHA", "CHB", "CHC", "CHD"}
PulseOps ==
    {[default_args EXCEPT !.cls = "pulse_generator", !.name = "set_channel", !.channel = c,
                          !.delay = 2, !.width = 1, !.ref = r, !.enable = en] :
        c \in PulseChannels, r \in PulseRefs, en \in BOOLEAN}

\* the calls documented for set_channel of BNC_505
BncChannels == {1, 2}
BncRefs == {"T0", "T1", "T2"}
BncOps ==
    {[default_args EXCEPT !.cls = "BNC_505", !.name = "set_channel", !.channel_n = c,
                          !.delay = 2, !.width = 1, !.ref = r, !.enable = en] :
        c \in BncChannels, r \in BncRefs, en \in BOOLEAN}

\* calls of the stepper moves
StepperOps ==
    {[default_args EXCEPT !.cls = "stepper_motor", !.name = n, !.steps = 500] :
        n \in {"back", "forward", "right", "left"}}
    \cup {[default_args EXCEPT !.cls = "stepper_motor", !.name = "go_home"]}
    \cup {[default_args EXCEPT !.cls = "stepper_motor", !.name = "position", !.x = 0 - 250, !.y = 1000]}

\* the statement the operation is at
statement == statements(op)[op_k]

\* the call of command before has returned and the operation is not in a
\* wait that goes on
statement_done ==
    /\ op_pc = "run"
    /\ cmd_pc = "returned"
    /\ statement.kind = "wait" => ret_command = "Y\r"

\* res, updated by a statement  res = command(...)
res_after == IF statement.keep THEN ret_command ELSE op_res

\* the next statement: its call of command is entered
op_next_statement ==
    /\ statement_done
    /\ op_k < Len(statements(op))
    /\ op_k' = op_k + 1
    /\ op_res' = res_after
    /\ LET next == statements(op)[op_k + 1]
       IN  enter_command(next.command, next.repeat, "ok\r\n")
    /\ UNCHANGED <<op, op_pc, op_ret, n_open, calls_log, outside_op>>

\* fault variant of op_wait_again: wait() asks once and goes on
op_wait_once ==
    /\ op_pc = "run"
    /\ cmd_pc = "returned"
    /\ statement.kind = "wait"
    /\ ret_command # "Y\r"
    /\ Len(calls_log) < MaxOpCalls
    /\ op_k < Len(statements(op))
    /\ op_k' = op_k + 1
    /\ LET next == statements(op)[op_k + 1]
       IN  enter_command(next.command, next.repeat, "ok\r\n")
    /\ UNCHANGED <<op, op_pc, op_res, op_ret, n_open, calls_log, outside_op>>

\* while self.is_moving() != b'Y\r': time.sleep(0.1) -- is_moving is called again
op_wait_again ==
    /\ op_pc = "run"
    /\ cmd_pc = "returned"
    /\ statement.kind = "wait"
    /\ ret_command # "Y\r"
    /\ Len(calls_log) < MaxOpCalls
    /\ enter_command(statement.command, statement.repeat, "ok\r\n")
    /\ UNCHANGED <<op_vars, n_open, calls_log, outside_op>>

\* the return after the last statement
op_return ==
    /\ statement_done
    /\ op_k = Len(statements(op))
    /\ op_pc' = "returned"
    /\ op_res' = res_after
    /\ op_ret' = return_value(op, res_after)
    /\ UNCHANGED <<op, op_k, command_vars, port_vars, outside_op>>

\* an exception leaves command: the operation has no handler, it leaves it too
op_raises ==
    /\ op_pc = "run"
    /\ cmd_pc = "raised"
    /\ op_pc' = "raised"
    /\ UNCHANGED <<op, op_k, op_res, op_ret, command_vars, port_vars, outside_op>>

-----------------------------------------------------------------------------
(* stepper_motor.new_position, one action per call.  The stage is taken to *)
(* do what the commands say: "+n" / "-n" move the motor of the selected    *)
(* board by n, "V1" reports its position, the status query ends the wait.  *)

\* the entry new_position adds to the moves made: the move, the position
\* read before it, the position read after it and end when the call returns
move_made(name, position1, position2, end_after) ==
    [move |-> name, position1 |-> position1, position2 |-> position2, end |-> end_after]

\* the stage after forward / back / left / right of the given number of steps
stage_after(name) ==
    CASE name = "forward" -> [motor1 |-> motor1 + steps, motor2 |-> motor2]
      [] name = "back"    -> [motor1 |-> motor1 - steps, motor2 |-> motor2]
      [] name = "left"    -> [motor1 |-> motor1, motor2 |-> motor2 + steps]
      [] name = "right"   -> [motor1 |-> motor1, motor2 |-> motor2 - steps]

\* the if / elif chain without its "not self.b1_flag" tests (a fault variant)
new_position_branch_no_b1_test(position1) ==
    IF position1 >= size
    THEN [move |-> "forward", b1_flag |-> TRUE, b2_flag |-> TRUE]
    ELSE IF position1 <= 0
    THEN [move |-> "forward", b1_flag |-> TRUE, b2_flag |-> FALSE]
    ELSE IF ~b2_flag
    THEN [move |-> "left", b1_flag |-> FALSE, b2_flag |-> b2_flag]
    ELSE [move |-> "right", b1_flag |-> FALSE, b2_flag |-> b2_flag]

\* the if / elif chain of new_position: the move it makes and the flags after
new_position_branch(position1) ==
    IF position1 >= size /\ ~b1_flag
    THEN [move |-> "forward", b1_flag |-> TRUE, b2_flag |-> TRUE]
    ELSE IF position1 <= 0 /\ ~b1_flag
    THEN [move |-> "forward", b1_flag |-> TRUE, b2_flag |-> FALSE]
    ELSE IF ~b2_flag
    THEN [move |-> "left", b1_flag |-> FALSE, b2_flag |-> b2_flag]
    ELSE [move |-> "right", b1_flag |-> FALSE, b2_flag |-> b2_flag]

\* new_position with "self.end = position2 >= size" for its last statement
\* (a fault variant)
new_position_end_recomputed ==
    /\ Len(moves) < MaxScanCalls
    /\ LET position1 == motor2
           branch == new_position_branch(position1)
           stage == stage_after(branch.move)
           position2 == stage.motor1
       IN  /\ b1_flag' = branch.b1_flag
           /\ b2_flag' = branch.b2_flag
           /\ motor1' = stage.motor1
           /\ motor2' = stage.motor2
           /\ end' = (position2 >= size)
           /\ moves' = Append(moves, move_made(branch.move, position1, position2, end'))
    /\ UNCHANGED <<steps, size, from_home, others, outside_scan>>

\* new_position(steps, size): position1 is read from board 2, the move is
\* made and waited for, position2 is read from board 1, end is set
new_position ==
    /\ Len(moves) < MaxScanCalls
    /\ LET position1 == motor2
           branch == new_position_branch(position1)
           stage == stage_after(branch.move)
           position2 == stage.motor1
       IN  /\ b1_flag' = branch.b1_flag
           /\ b2_flag' = branch.b2_flag
           /\ motor1' = stage.motor1
           /\ motor2' = stage.motor2
           /\ end' = (IF position2 >= size THEN TRUE ELSE end)
           /\ moves' = Append(moves, move_made(branch.move, position1, position2, end'))
    /\ UNCHANGED <<steps, size, from_home, others, outside_scan>>

\* the operations of stepper_motor other than new_position
OtherOperations ==
    {"back", "forward", "right", "left", "set_home", "go_home", "is_moving", "wait",
     "position"}

\* where the stage can be after one of them: the four moves step a motor,
\* go_home sends both motors to 0, set_home ("I3") makes the place where the
\* stage is the new 0 of the selected board or of both, the rest only ask
stages_after(name) ==
    CASE name \in {"back", "forward", "right", "left"} -> {stage_after(name)}
      [] name = "go_home" -> {[motor1 |-> 0, motor2 |-> 0]}
      [] name = "set_home" -> {[motor1 |-> 0, motor2 |-> 0], [motor1 |-> 0, motor2 |-> motor2],
                               [motor1 |-> motor1, motor2 |-> 0]}
      [] OTHER -> {[motor1 |-> motor1, motor2 |-> motor2]}

\* a call of another operation between two calls of new_position: none of
\* them assigns b1_flag, b2_flag or end
other_operation ==
    /\ others < MaxOthers
    /\ \E name \in OtherOperations :
           \E stage \in stages_after(name) :
               /\ motor1' = stage.motor1
               /\ motor2' = stage.motor2
    /\ others' = others + 1
    /\ from_home' = FALSE
    /\ UNCHANGED <<b1_flag, b2_flag, end, steps, size, moves, outside_scan>>

-----------------------------------------------------------------------------
(* class oscilloscope: ready, setup, save, recall, get_value.  Each opens  *)
(* the resource inside try/except pyvisa.Error and then talks to scope.    *)

\* an operation and its arguments (those the operation does not take are 0 / "")
scope_op(name, meas_num, meas_source, meas_type, mem) ==
    [name |-> name, meas_num |-> meas_num, meas_source |-> meas_source,
     meas_type |-> meas_type, mem |-> mem]

ScopeOps ==
    {scope_op("ready", 0, 0, "", 0)}
    \cup {scope_op("setup", n, s, "PK2pk", 0) : n \in {1, 5}, s \in {1, 4}}
    \cup {scope_op("save", 0, 0, "", m) : m \in {1, 2}}
    \cup {scope_op("recall", 0, 0, "", m) : m \in {1, 2}}
    \cup {scope_op("get_value", n, 0, "", 0) : n \in {1, 5}}

\* a statement on scope: scope.write(text) or scope.query(text)
scope_stmt(kind, text) == [kind |-> kind, text |-> text]

\* the statements of an operation after its try/except, in order
scope_body(o) ==
    CASE o.name = "ready" ->
            <<scope_stmt("write", "ACQuire:STATE RUN"),
              scope_stmt("write", "ACQuire:STOPAfter SEQuence")>>
      [] o.name = "setup" ->
            <<scope_stmt("write", "MEASUrement:MEAS" \o str(o.meas_num) \o ":SOUrce CH"
                                        \o str(o.meas_source)),
              scope_stmt("write", "MEASUrement:MEAS" \o str(o.meas_num) \o ":TYPE "
                                        \o o.meas_type)>>
      [] o.name = "save" ->
            <<scope_stmt("write", "SAVE:SETUP " \o str(o.mem))>>
      [] o.name = "recall" ->
            <<scope_stmt("write", "RECALL:SETUP " \o str(o.mem))>>
      [] o.name = "get_value" ->
            <<scope_stmt("query", "MEASUrement:MEAS" \o str(o.meas_num) \o ":VALue?")>>

\* what the instrument answers to a query
ScopeAnswers == {"2.48E0\n", "9.9E37\n", ""}

\* float(s) for the answers: raises ValueError on the empty string; the
\* value is held as mantissa * 10^exponent
float_raises(s) == s = ""
float(s) ==
    CASE s = "2.48E0\n" -> [mantissa |-> 248, exponent |-> -2]
      [] s = "9.9E37\n" -> [mantissa |-> 99, exponent |-> 36]
      [] OTHER -> [mantissa |-> 0, exponent |-> 0]

\* the value an operation returns: None, or the voltage of get_value
returns_None == [returned |-> TRUE, is_None |-> TRUE, voltage |-> float("")]
returns_voltage(v) == [returned |-> TRUE, is_None |-> FALSE, voltage |-> v]
no_scope_return == [returned |-> FALSE, is_None |-> TRUE, voltage |-> float("")]

\* what an operation prints in its except clause
print_open_error == "Error opening oscilloscope: <str(e)>"

\* scope = rm.open_resource(...): a session is open and scope is bound to it
osc_open ==
    /\ osc_pc = "try"
    /\ scope' = "session"
    /\ n_scope_open' = n_scope_open + 1
    /\ osc_pc' = "timeout"
    /\ UNCHANGED <<osc_op, osc_k, scope_log, osc_printed, osc_error, osc_ret, osc_done,
                   outside_scope>>

\* rm.open_resource(...) raises pyvisa.Error (instrument off, unplugged, busy):
\* no session, scope is not assigned, control goes to the except clause
osc_open_fails ==
    /\ osc_pc = "try"
    /\ osc_pc' = "except"
    /\ UNCHANGED <<osc_op, scope, osc_k, scope_log, osc_printed, osc_error, osc_ret,
                   n_scope_open, osc_done, outside_scope>>

\* scope.timeout = None: done, or raises pyvisa.Error with scope already bound
osc_timeout ==
    /\ osc_pc = "timeout"
    /\ osc_pc' \in {"body", "except"}
    /\ UNCHANGED <<osc_op, scope, osc_k, scope_log, osc_printed, osc_error, osc_ret,
                   n_scope_open, osc_done, outside_scope>>

\* fault variant of osc_except: the except clause prints and raises again
osc_except_reraises ==
    /\ osc_pc = "except"
    /\ osc_printed' = Append(osc_printed, print_open_error)
    /\ osc_error' = "pyvisa.Error"
    /\ osc_pc' = "raised"
    /\ osc_done' = osc_done + 1
    /\ UNCHANGED <<osc_op, scope, osc_k, scope_log, osc_ret, n_scope_open, outside_scope>>

\* except pyvisa.Error as e: print(...); control goes on after the try statement
osc_except ==
    /\ osc_pc = "except"
    /\ osc_printed' = Append(osc_printed, print_open_error)
    /\ osc_pc' = "body"
    /\ UNCHANGED <<osc_op, scope, osc_k, scope_log, osc_error, osc_ret, n_scope_open,
                   osc_done, outside_scope>>

\* the next statement names scope while scope is not bound: UnboundLocalError
osc_unbound ==
    /\ osc_pc = "body"
    /\ osc_k <= Len(scope_body(osc_op))
    /\ scope = unbound
    /\ osc_error' = "UnboundLocalError"
    /\ osc_pc' = "raised"
    /\ osc_done' = osc_done + 1
    /\ UNCHANGED <<osc_op, scope, osc_k, scope_log, osc_printed, osc_ret, n_scope_open,
                   outside_scope>>

\* scope.write(text): the text is sent
osc_write ==
    /\ osc_pc = "body"
    /\ osc_k <= Len(scope_body(osc_op))
    /\ scope # unbound
    /\ scope_body(osc_op)[osc_k].kind = "write"
    /\ scope_log' = Append(scope_log, scope_body(osc_op)[osc_k].text)
    /\ osc_k' = osc_k + 1
    /\ UNCHANGED <<osc_op, osc_pc, scope, osc_printed, osc_error, osc_ret, n_scope_open,
                   osc_done, outside_scope>>

\* voltage = float(scope.query(text)); return voltage.  The text is sent and
\* an answer read; float raises ValueError on an answer that is no number
osc_query ==
    /\ osc_pc = "body"
    /\ osc_k <= Len(scope_body(osc_op))
    /\ scope # unbound
    /\ scope_body(osc_op)[osc_k].kind = "query"
    /\ scope_log' = Append(scope_log, scope_body(osc_op)[osc_k].text)
    /\ osc_k' = osc_k + 1
    /\ \E answer \in ScopeAnswers :
          IF float_raises(answer)
          THEN /\ osc_error' = "ValueError"
               /\ osc_pc' = "raised"
               /\ osc_ret' = osc_ret
          ELSE /\ osc_error' = osc_error
               /\ osc_pc' = "returned"
               /\ osc_ret' = returns_voltage(float(answer))
    /\ osc_done' = osc_done + 1
    /\ UNCHANGED <<osc_op, scope, osc_printed, n_scope_open, outside_scope>>

\* scope.write / scope.query raises pyvisa.Error (instrument gone): nothing
\* catches it
osc_io_raises ==
    /\ osc_pc = "body"
    /\ osc_k <= Len(scope_body(osc_op))
    /\ scope # unbound
    /\ osc_error' = "pyvisa.Error"
    /\ osc_pc' = "raised"
    /\ osc_done' = osc_done + 1
    /\ UNCHANGED <<osc_op, scope, osc_k, scope_log, osc_printed, osc_ret, n_scope_open,
                   outside_scope>>

\* the end of an operation that returns None (explicit return or end of body);
\* the session stays as it is
osc_return ==
    /\ osc_pc = "body"
    /\ osc_k > Len(scope_body(osc_op))
    /\ osc_ret' = returns_None
    /\ osc_pc' = "returned"
    /\ osc_done' = osc_done + 1
    /\ UNCHANGED <<osc_op, scope, osc_k, scope_log, osc_printed, osc_error, n_scope_open,
                   outside_scope>>

\* sessions no local variable refers to any more: all but the one of an
\* operation that is still running
sessions_unreferenced ==
    n_scope_open - (IF scope # unbound /\ osc_pc \in {"timeout", "except", "body"} THEN 1 ELSE 0)

\* no operation calls scope.close(): a session ends only if the interpreter
\* collects the Resource object that nothing refers to any more and the
\* object's finalizer closes it; when, and whether, is up to the interpreter
osc_collected ==
    /\ sessions_unreferenced > 0
    /\ n_scope_open' = n_scope_open - 1
    /\ UNCHANGED <<osc_op, osc_pc, scope, osc_k, scope_log, osc_printed, osc_error, osc_ret,
                   osc_done, outside_scope>>

\* the frame of an operation that is entered: scope is a local, not yet bound
enter_scope_op(o) ==
    /\ osc_op' = o
    /\ osc_pc' = "try"
    /\ scope' = unbound
    /\ osc_k' = 1
    /\ scope_log' = <<>>
    /\ osc_printed' = <<>>
    /\ osc_error' = "none"
    /\ osc_ret' = no_scope_return

\* the caller calls another operation after the one before has ended
osc_next_op ==
    /\ osc_pc \in {"returned", "raised"}
    /\ osc_done < MaxScopeOps
    /\ \E o \in ScopeOps : enter_scope_op(o)
    /\ UNCHANGED <<n_scope_open, osc_done, outside_scope>>

-----------------------------------------------------------------------------
(* Specifications                                                          *)

decoder_idle == binary_stream = <<>> /\ ret_legacy = no_return /\ ret_int = no_return
cleaner_idle == cha_info = <<>> /\ ret_cleaner = no_clean
command_idle ==
    /\ repeat_arg = FALSE /\ good_response = "ok\r\n" /\ repeat = FALSE /\ res = unbound
    /\ device = "none" /\ cmd_pc = "idle" /\ io_log = <<>> /\ ret_command = unbound
    /\ command_arg = "" /\ n_open = 0 /\ calls_log = <<>>

scope_idle ==
    /\ osc_op = scope_op("none", 0, 0, "", 0) /\ osc_pc = "idle" /\ scope = unbound /\ osc_k = 1
    /\ scope_log = <<>> /\ osc_printed = <<>> /\ osc_error = "none"
    /\ osc_ret = no_scope_return /\ n_scope_open = 0 /\ osc_done = 0

op_idle ==
    /\ op = default_args /\ op_pc = "idle" /\ op_k = 1 /\ op_res = unbound /\ op_ret = not_returned

scan_idle ==
    /\ b1_flag = FALSE /\ b2_flag = FALSE /\ end = FALSE /\ steps = 1 /\ size = 1
    /\ motor1 = 0 /\ motor2 = 0 /\ from_home = TRUE /\ others = 0 /\ moves = << >>

start_idle ==
    /\ uno_pc = "idle" /\ UNO = "none" /\ first_com = << >> /\ hex_stream = << >>
    /\ uno_decoded = no_return /\ uno_log = << >> /\ uno_ret = start_not_returned

InitDecoder ==
    /\ binary_stream \in Streams
    /\ ret_legacy = no_return
    /\ ret_int = no_return
    /\ cleaner_idle
    /\ command_idle
    /\ scope_idle
    /\ op_idle
    /\ start_idle
    /\ scan_idle

NextDecoder == call_legacy \/ call_int

SpecDecoder == InitDecoder /\ [][NextDecoder]_vars

InitCleaner ==
    /\ cha_info \in CodeLists
    /\ ret_cleaner = no_clean
    /\ decoder_idle
    /\ command_idle
    /\ scope_idle
    /\ op_idle
    /\ start_idle
    /\ scan_idle

NextCleaner == call_cleaner

SpecCleaner == InitCleaner /\ [][NextCleaner]_vars

InitCommand ==
    /\ repeat_arg \in BOOLEAN
    /\ good_response \in GoodResponses
    /\ repeat = repeat_arg
    /\ res = unbound
    /\ device = "none"
    /\ cmd_pc = "idle"
    /\ io_log = <<>>
    /\ ret_command = unbound
    /\ command_arg \in CommandArgs
    /\ n_open = 0
    /\ calls_log = <<>>
    /\ decoder_idle
    /\ cleaner_idle
    /\ scope_idle
    /\ op_idle
    /\ start_idle
    /\ scan_idle

\* one call of command
StepCommand ==
    \/ cmd_open \/ cmd_open_raises \/ cmd_write \/ cmd_readline \/ cmd_io_raises
    \/ cmd_check \/ cmd_return

NextCommand == StepCommand \/ next_call

SpecCommand == InitCommand /\ [][NextCommand]_vars

InitScope ==
    /\ osc_op \in ScopeOps
    /\ osc_pc = "try"
    /\ scope = unbound
    /\ osc_k = 1
    /\ scope_log = <<>>
    /\ osc_printed = <<>>
    /\ osc_error = "none"
    /\ osc_ret = no_scope_return
    /\ n_scope_open = 0
    /\ osc_done = 0
    /\ decoder_idle
    /\ cleaner_idle
    /\ command_idle
    /\ op_idle
    /\ start_idle
    /\ scan_idle

NextScope ==
    \/ osc_open \/ osc_open_fails \/ osc_timeout \/ osc_except \/ osc_unbound
    \/ osc_write \/ osc_query \/ osc_io_raises \/ osc_return \/ osc_next_op
    \/ osc_collected

SpecScope == InitScope /\ [][NextScope]_vars

\* an operation is called: it is at its first statement, a call of command
InitOp(ops) ==
    /\ op \in ops
    /\ op_pc = "run"
    /\ op_k = 1
    /\ op_res = unbound
    /\ op_ret = not_returned
    /\ command_arg = statements(op)[1].command
    /\ repeat_arg = statements(op)[1].repeat
    /\ good_response = "ok\r\n"
    /\ repeat = repeat_arg
    /\ res = unbound
    /\ device = "none"
    /\ cmd_pc = "idle"
    /\ io_log = <<>>
    /\ ret_command = unbound
    /\ n_open = 0
    /\ calls_log = <<>>
    /\ decoder_idle
    /\ cleaner_idle
    /\ scope_idle
    /\ start_idle
    /\ scan_idle

InitPulse == InitOp(PulseOps \cup BncOps)

NextPulse == StepCommand \/ op_next_statement \/ op_return \/ op_raises

SpecPulse == InitPulse /\ [][NextPulse]_vars

InitStepper == InitOp(StepperOps)

NextStepper == StepCommand \/ op_next_statement \/ op_wait_again \/ op_return \/ op_raises

SpecStepper == InitStepper /\ [][NextStepper]_vars

InitStart ==
    /\ start_idle
    /\ decoder_idle
    /\ cleaner_idle
    /\ command_idle
    /\ scope_idle
    /\ op_idle
    /\ scan_idle

NextStart ==
    \/ uno_open \/ uno_open_raises \/ uno_write \/ uno_read_first \/ uno_handshake_done
    \/ uno_read_stream \/ uno_check \/ uno_io_raises

SpecStart == InitStart /\ [][NextStart]_vars

\* a stepper_motor object just made (flags False), the stage somewhere on
\* the sample, the arguments every call of the scan is given
InitScan ==
    /\ b1_flag = FALSE
    /\ b2_flag = FALSE
    /\ end = FALSE
    /\ steps \in 1..MaxSteps
    /\ size \in 1..MaxSize
    /\ motor1 \in 0..size
    /\ motor2 \in 0..size
    /\ from_home = (motor1 = 0 /\ motor2 = 0)
    /\ others = 0
    /\ moves = << >>
    /\ decoder_idle
    /\ cleaner_idle
    /\ command_idle
    /\ scope_idle
    /\ op_idle
    /\ start_idle

NextScan == new_position

SpecScan == InitScan /\ [][NextScan]_vars

\* a stepper_motor object in use: calls of new_position with calls of the
\* other operations between them
NextObject == new_position \/ other_operation

SpecObject == InitScan /\ [][NextObject]_vars

\* one call, its loop not cut off after MaxRounds rounds
NextCommandLoop == StepCommand \/ cmd_write_unlogged \/ cmd_readline_unlogged

\* the program is one thread: while it has a next step, it takes one
SpecCommandFair == InitCommand /\ [][NextCommandLoop]_vars /\ WF_vars(NextCommandLoop)

-----------------------------------------------------------------------------
(* Reference reading of a stream, used by the properties below: the i-th   *)
(* group of four bytes taken as a little-endian 32-bit word                *)

WholeWords(s) == Len(s) % 4 = 0
NWords(s) == Len(s) \div 4

\* word >> 5, bit 4 and the low four bits of the little-endian word at bytes 4i-3..4i
RawOf(s, i) == (s[4 * i - 3] \div 32) + 8 * s[4 * i - 2] + 2048 * s[4 * i - 1] + 524288 * s[4 * i]
FlagOf(s, i) == (s[4 * i - 3] \div 16) % 2
ChanOf(s, i) == s[4 * i - 3] % 16

\* positions whose raw counter value is strictly less than the one before
DropPositions(s) == {i \in 2..NWords(s) : RawOf(s, i) < RawOf(s, i - 1)}
DropsUpTo(s, i) == Cardinality({j \in DropPositions(s) : j <= i})

\* positions of the words whose flag bit is zero, in stream order
ValidIdx(s) == SelectSeq([i \in 1..NWords(s) |-> i], LAMBDA i : FlagOf(s, i) = 0)

\* the 4-character binary string of n, most significant bit first
BitStr4(n) == [j \in 1..4 |-> IF (n \div (2 ^ (4 - j))) % 2 = 1 THEN "1" ELSE "0"]

\* timestamps and channel entries of a whole-word stream with every strict
\* drop, flagged or not, counted as one rollover
RefTimestamps(s) ==
    [k \in 1..Len(ValidIdx(s)) |->
        (RawOf(s, ValidIdx(s)[k]) + (2 ^ 27) * DropsUpTo(s, ValidIdx(s)[k])) * 2]
RefChannels(s, legacy) ==
    [k \in 1..Len(ValidIdx(s)) |->
        IF legacy THEN BitStr4(ChanOf(s, ValidIdx(s)[k])) ELSE ChanOf(s, ValidIdx(s)[k])]

\* the frame of the call made with the given legacy argument
Ret(legacy) == IF legacy THEN ret_legacy ELSE ret_int

-----------------------------------------------------------------------------
(* Properties of read_timestamps                                           *)

\* C1: on a whole-word stream in which no raw counter value is strictly less
\* than the one before it, the timestamps are exactly raw * 2 for each word
\* whose flag bit is zero, in input order, and nothing else.
C1_ZeroRollovers ==
    \A legacy \in BOOLEAN : LET r == Ret(legacy) IN
        (r.returned /\ WholeWords(binary_stream) /\ DropPositions(binary_stream) = {})
        => r.ts_list = [k \in 1..Len(ValidIdx(binary_stream)) |->
                           RawOf(binary_stream, ValidIdx(binary_stream)[k]) * 2]

C1_Witness ==
    /\ ret_legacy.returned /\ ret_int.returned
    /\ WholeWords(binary_stream) /\ NWords(binary_stream) = 3
    /\ DropPositions(binary_stream) = {}
    /\ FlagOf(binary_stream, 2) = 1
    /\ Len(ValidIdx(binary_stream)) = 2
    /\ RawOf(binary_stream, 3) > RawOf(binary_stream, 1)
    /\ ret_legacy.ts_list[2] = RawOf(binary_stream, 3) * 2

\* C2: on a whole-word stream with exactly one position p whose raw value is
\* strictly less than that of the word before, every valid word at or after
\* p decodes to (raw + 2^27) * 2 and every valid word before p to raw * 2.
C2_OneRollover ==
    \A legacy \in BOOLEAN : LET r == Ret(legacy) IN
        \A p \in 2..NWords(binary_stream) :
            (r.returned /\ WholeWords(binary_stream) /\ DropPositions(binary_stream) = {p})
            => r.ts_list = [k \in 1..Len(ValidIdx(binary_stream)) |->
                               IF ValidIdx(binary_stream)[k] >= p
                               THEN (RawOf(binary_stream, ValidIdx(binary_stream)[k]) + 2 ^ 27) * 2
                               ELSE RawOf(binary_stream, ValidIdx(binary_stream)[k]) * 2]

C2_Witness ==
    /\ ret_legacy.returned
    /\ WholeWords(binary_stream) /\ NWords(binary_stream) = 3
    /\ DropPositions(binary_stream) = {2}
    /\ ValidIdx(binary_stream) = <<1, 2, 3>>
    /\ ret_legacy.ts_list[1] = RawOf(binary_stream, 1) * 2
    /\ ret_legacy.ts_list[3] = RawOf(binary_stream, 3) * 2 + 268435456

\* C3: a word whose flag bit is set never produces an output entry, but it
\* takes part in rollover tracking: the rollover count after the last word is
\* the number of strict drops over all words, and the count applied to a
\* valid word is the number of strict drops up to it, flagged words included.
C3_InvalidWordsTrackRollover ==
    \A legacy \in BOOLEAN : LET r == Ret(legacy) IN
        (r.returned /\ WholeWords(binary_stream))
        => /\ Len(r.ts_list) = Len(ValidIdx(binary_stream))
           /\ Len(r.event_channel_list) = Len(ValidIdx(binary_stream))
           /\ r.periode_count = Cardinality(DropPositions(binary_stream))
           /\ r.ts_list = RefTimestamps(binary_stream)

\* a flagged word drops below a valid word, and a valid word follows it
C3_Witness ==
    /\ ret_int.returned
    /\ WholeWords(binary_stream) /\ NWords(binary_stream) = 3
    /\ ValidIdx(binary_stream) = <<1, 3>>
    /\ DropPositions(binary_stream) = {2}
    /\ RawOf(binary_stream, 3) < RawOf(binary_stream, 1)
    /\ ret_int.periode_count = 1
    /\ ret_int.ts_list[2] = (RawOf(binary_stream, 3) + 2 ^ 27) * 2

\* the (tick, pattern) pairs a whole-word stream of unflagged words encodes
Pairs(s) == [i \in 1..NWords(s) |-> [tick |-> RawOf(s, i), pattern |-> ChanOf(s, i)]]

\* one 32-bit word per pair, tick in the high 27 bits, trailer in the low 5,
\* low byte first
EncodeWord(pr) == << (pr.tick % 8) * 32 + pr.pattern, (pr.tick \div 8) % 256,
                     (pr.tick \div 2048) % 256, (pr.tick \div 524288) % 256 >>
Encode(prs) == Concat([i \in 1..Len(prs) |-> EncodeWord(prs[i])])

AllUnflagged(s) == \A i \in 1..NWords(s) : FlagOf(s, i) = 0
TickDropsUpTo(prs, i) == Cardinality({j \in 2..i : prs[j].tick < prs[j - 1].tick})

\* C4 as stated: decoding the encoding of (tick, pattern) pairs gives back
\* the ticks and the patterns themselves.
C4_RoundTripExact ==
    (ret_int.returned /\ WholeWords(binary_stream) /\ AllUnflagged(binary_stream))
    => /\ ret_int.ts_list = [i \in 1..NWords(binary_stream) |-> Pairs(binary_stream)[i].tick]
       /\ ret_int.event_channel_list =
              [i \in 1..NWords(binary_stream) |-> Pairs(binary_stream)[i].pattern]

\* C4 (amended): decoding the encoding of (tick, pattern) pairs gives one
\* entry per pair, in order; the patterns come back exactly (as integers with
\* legacy=False, as their 4-character bit strings with legacy=True) and the
\* i-th timestamp is 2 * (tick_i + 2^27 * number of strict drops among
\* tick_1..tick_i).
C4_RoundTripScaled ==
    \A legacy \in BOOLEAN : LET r == Ret(legacy) IN
        (r.returned /\ WholeWords(binary_stream) /\ AllUnflagged(binary_stream))
        => LET prs == Pairs(binary_stream)
           IN  /\ Encode(prs) = binary_stream
               /\ r.ts_list = [i \in 1..Len(prs) |->
                                  2 * (prs[i].tick + (2 ^ 27) * TickDropsUpTo(prs, i))]
               /\ ret_int.returned =>
                      ret_int.event_channel_list = [i \in 1..Len(prs) |-> prs[i].pattern]
               /\ ret_legacy.returned =>
                      ret_legacy.event_channel_list = [i \in 1..Len(prs) |-> BitStr4(prs[i].pattern)]

C4_Witness ==
    /\ ret_int.returned /\ ret_legacy.returned
    /\ WholeWords(binary_stream) /\ NWords(binary_stream) = 2
    /\ AllUnflagged(binary_stream)
    /\ Pairs(binary_stream)[1].tick > 0
    /\ Pairs(binary_stream)[1].tick <= Pairs(binary_stream)[2].tick
    /\ Pairs(binary_stream)[1].pattern = 9
    /\ ret_int.ts_list[1] = 2 * Pairs(binary_stream)[1].tick
    /\ ret_int.event_channel_list = <<9, Pairs(binary_stream)[2].pattern>>

\* C5: for every byte stream the returned timestamps are non-decreasing in
\* output order.
C5_Monotonic ==
    \A legacy \in BOOLEAN : LET r == Ret(legacy) IN
        r.returned => \A k \in 1..(Len(r.ts_list) - 1) : r.ts_list[k] <= r.ts_list[k + 1]

\* two valid words, the later with the smaller raw value, a flagged word between
C5_Witness ==
    /\ ret_legacy.returned
    /\ WholeWords(binary_stream) /\ NWords(binary_stream) = 3
    /\ ValidIdx(binary_stream) = <<1, 3>>
    /\ RawOf(binary_stream, 3) < RawOf(binary_stream, 1)
    /\ Len(ret_legacy.ts_list) = 2
    /\ ret_legacy.ts_list[1] < ret_legacy.ts_list[2]

\* the longest prefix made of whole words
WholePrefix(s) == SubSeq(s, 1, 4 * (Len(s) \div 4))

\* the stream with zero bytes inserted after its first (len mod 4) bytes, so
\* that these bytes make a word of their own
LeadPadded(s) ==
    LET r == Len(s) % 4
    IN  IF r = 0 THEN s
        ELSE SubSeq(s, 1, r) \o [j \in 1..(4 - r) |-> 0] \o SubSeq(s, r + 1, Len(s))

\* C6 as stated: when the length is not a multiple of 4 no error is raised
\* and the output is that of the longest whole-word prefix.
C6_TruncatesTrailingPartialWord ==
    \A legacy \in BOOLEAN :
        LET r == Ret(legacy)
        IN  ((r.returned \/ r.raised) /\ ~WholeWords(binary_stream))
            => /\ ~r.raised
               /\ r.ts_list = read_timestamps(WholePrefix(binary_stream), legacy).ts_list
               /\ r.event_channel_list =
                      read_timestamps(WholePrefix(binary_stream), legacy).event_channel_list

\* C6 (amended): when the length is not a multiple of 4 no error is raised
\* and nothing is dropped: the first (length mod 4) bytes are read as a short
\* little-endian word of their own, the words after it are the 4-byte groups
\* that follow, and the output is that of this word list.
C6_LeadingPartialWordDecoded ==
    \A legacy \in BOOLEAN :
        LET r == Ret(legacy)
        IN  ((r.returned \/ r.raised) /\ ~WholeWords(binary_stream))
            => /\ ~r.raised
               /\ Len(r.ts_word_list) = (Len(binary_stream) \div 4) + 1
               /\ r.ts_list = RefTimestamps(LeadPadded(binary_stream))
               /\ r.event_channel_list = RefChannels(LeadPadded(binary_stream), legacy)
               /\ r.ts_list = read_timestamps(LeadPadded(binary_stream), legacy).ts_list
               /\ r.event_channel_list =
                      read_timestamps(LeadPadded(binary_stream), legacy).event_channel_list

\* five bytes: the first byte alone is a valid word and so are the other four
C6_Witness ==
    /\ ret_legacy.returned
    /\ Len(binary_stream) = 5
    /\ binary_stream[1] = 233
    /\ binary_stream[2] = 0
    /\ Len(ret_legacy.ts_list) = 2
    /\ ret_legacy.ts_list[1] = 14
    /\ ret_legacy.event_channel_list[1] = <<"1", "0", "0", "1">>
    /\ RefTimestamps(WholePrefix(binary_stream)) # ret_legacy.ts_list

\* C7: for a stream of 4n bytes the word list has n words in stream order,
\* the i-th being the little-endian 32-bit value of bytes 4i..4i+3 (counted
\* from 0).
C7_WordsLittleEndianInOrder ==
    \A legacy \in BOOLEAN : LET r == Ret(legacy) IN
        (r.returned /\ WholeWords(binary_stream))
        => /\ Len(r.ts_word_list) = Len(binary_stream) \div 4
           /\ \A i \in 1..Len(r.ts_word_list) :
                  r.ts_word_list[i] = [shr5 |-> RawOf(binary_stream, i),
                                       and1F |-> binary_stream[4 * i - 3] % 32]

C7_Witness ==
    /\ ret_int.returned
    /\ binary_stream = <<72, 0, 128, 0, 225, 255, 255, 255, 47, 0, 0, 0>>
    /\ ret_int.ts_word_list = << [shr5 |-> 262146, and1F |-> 8],
                                 [shr5 |-> 134217727, and1F |-> 1],
                                 [shr5 |-> 1, and1F |-> 15] >>

\* the low four bits of the words of a list whose flag bit is zero
UnflaggedLow4(words) ==
    LET sel == SelectSeq(words, LAMBDA w : (w.and1F \div 16) % 2 = 0)
    IN  [k \in 1..Len(sel) |-> sel[k].and1F % 16]

\* C8: the calls with legacy=True and legacy=False return identical
\* timestamps and channel lists of the same length; the i-th legacy entry is
\* the 4-character binary string of the i-th non-legacy integer, which is the
\* low 4 bits (0..15) of the i-th unflagged word.
C8_LegacyRendering ==
    (ret_legacy.returned /\ ret_int.returned)
    => /\ ret_legacy.ts_list = ret_int.ts_list
       /\ Len(ret_legacy.event_channel_list) = Len(ret_int.event_channel_list)
       /\ ret_int.event_channel_list = UnflaggedLow4(ret_int.ts_word_list)
       /\ \A i \in 1..Len(ret_int.event_channel_list) :
              /\ ret_int.event_channel_list[i] \in 0..15
              /\ ret_legacy.event_channel_list[i] = BitStr4(ret_int.event_channel_list[i])

C8_Witness ==
    /\ ret_legacy.returned /\ ret_int.returned
    /\ ret_int.event_channel_list = <<6, 15, 1>>
    /\ ret_legacy.event_channel_list =
           << <<"0", "1", "1", "0">>, <<"1", "1", "1", "1">>, <<"0", "0", "0", "1">> >>

-----------------------------------------------------------------------------
(* Properties of channel_cleaner                                           *)

\* the pattern a 4-character code stands for, and its bit k (0 = CH1 .. 3 = CH4)
PatternOf(code) == CHOOSE p \in 0..15 : BitStr4(p) = code
Bit(p, k) == (p \div (2 ^ k)) % 2

\* the names of the set bits in the order CH4, CH3, CH2, CH1
NamesOf(p) ==
    LET all == << [name |-> "CH4", bit |-> 3], [name |-> "CH3", bit |-> 2],
                  [name |-> "CH2", bit |-> 1], [name |-> "CH1", bit |-> 0] >>
        set == SelectSeq(all, LAMBDA x : Bit(p, x.bit) = 1)
    IN  [k \in 1..Len(set) |-> set[k].name]

\* the number of patterns of the list in which bit k is set
CountOf(info, k) == Cardinality({i \in 1..Len(info) : Bit(PatternOf(info[i]), k) = 1})

\* C9: channel_cleaner returns one list per input pattern, in input order,
\* holding exactly the names of the set bits in the order CH4, CH3, CH2, CH1
\* (empty for pattern 0), and the counts tuple (CH1, CH2, CH3, CH4) gives for
\* each channel the number of patterns in which its bit is set.
C9_ChannelCleaner ==
    ret_cleaner.returned
    => /\ Len(ret_cleaner.cha_clean) = Len(cha_info)
       /\ \A i \in 1..Len(cha_info) :
              ret_cleaner.cha_clean[i] = NamesOf(PatternOf(cha_info[i]))
       /\ ret_cleaner.counts = << CountOf(cha_info, 0), CountOf(cha_info, 1),
                                  CountOf(cha_info, 2), CountOf(cha_info, 3) >>

\* 0b0110 gives ["CH3", "CH2"] and raises only the counts of channels 2 and 3
C9_Witness ==
    /\ ret_cleaner.returned
    /\ cha_info = << <<"0", "1", "1", "0">>, <<"0", "0", "0", "0">>, <<"0", "1", "1", "0">> >>
    /\ ret_cleaner.cha_clean = << <<"CH3", "CH2">>, <<>>, <<"CH3", "CH2">> >>
    /\ ret_cleaner.counts = <<0, 2, 2, 0>>

-----------------------------------------------------------------------------
(* Properties of command                                                   *)

\* the responses read so far, in order
ReadsOf(log) ==
    LET rd == SelectSeq(log, LAMBDA x : x.op = "read")
    IN  [k \in 1..Len(rd) |-> rd[k].data]

\* C10: a call with repeat=True returns only when the last response read
\* equals good_response: the returned value is good_response, every response
\* read earlier in the call differed from it, and the command was written
\* once before each read.
C10_RepeatReturnsOnGoodResponse ==
    (cmd_pc = "returned" /\ repeat_arg)
    => /\ ret_command = good_response
       /\ Len(io_log) % 2 = 0 /\ Len(io_log) >= 2
       /\ \A k \in 1..Len(io_log) :
              io_log[k].op = (IF k % 2 = 1 THEN "write" ELSE "read")
       /\ io_log[Len(io_log)].data = good_response
       /\ \A k \in 1..(Len(ReadsOf(io_log)) - 1) : ReadsOf(io_log)[k] # good_response

\* returned after a timeout and an error reply were answered by re-sending
C10_Witness ==
    /\ cmd_pc = "returned" /\ repeat_arg
    /\ device = "closed"
    /\ ReadsOf(io_log) = <<"", "?1\r\n", "ok\r\n">>
    /\ writes_made = 3
    /\ ret_command = "ok\r\n"

\* the program is just after a device.write of the current call
just_written == cmd_pc \in {"read", "read_unlogged"}

\* C11: a call with repeat=True has no retry bound.  Against a device that
\* never answers good_response (and a channel that never fails) the call never
\* returns and writes the command again and again, for ever; a call with
\* repeat=True that has returned has read good_response; and once
\* good_response is read the call does return.
C11_NoRetryBound ==
    /\ (repeat_arg /\ [](res # good_response) /\ [](cmd_pc # "raised"))
          => ([](cmd_pc # "returned") /\ []<>just_written)
    /\ []((repeat_arg /\ cmd_pc = "returned") => res = good_response)
    /\ ((cmd_pc = "check" /\ res = good_response) ~> (cmd_pc = "returned"))

\* the command is written once more after MaxRounds rounds without good_response
C11_Witness ==
    /\ repeat_arg
    /\ cmd_pc = "read_unlogged"
    /\ writes_made = MaxRounds
    /\ \A k \in 1..Len(ReadsOf(io_log)) : ReadsOf(io_log)[k] # good_response
    /\ res # good_response
    /\ device = "open"

\* C12: every call of command opens its own serial channel and the channel is
\* closed when the call ends, by return or by an exception of write/readline:
\* at most one channel is open at any time, one while a call is between its
\* open and its end, none before a call, after a call or between calls.
C12_ChannelLifecycle ==
    /\ n_open \in {0, 1}
    /\ (cmd_pc \in {"write", "read", "read_unlogged", "check", "exit"})
          => (n_open = 1 /\ device = "open")
    /\ (cmd_pc = "idle") => (n_open = 0 /\ device = "none")
    /\ (cmd_pc = "returned") => (n_open = 0 /\ device = "closed")
    /\ (cmd_pc = "raised") => (n_open = 0 /\ device \in {"none", "closed"})

\* a second call, after one that returned, ended by an exception of readline
C12_Witness ==
    /\ Len(calls_log) = 2
    /\ calls_log[1].outcome = "returned"
    /\ calls_log[2].outcome = "raised"
    /\ cmd_pc = "raised"
    /\ io_log = <<io("write", command_arg)>>
    /\ device = "closed"
    /\ n_open = 0

\* C20: a call with repeat=False writes the command once, reads one response
\* and returns that response, equal to good_response or not; it never writes
\* a second time.
C20_NoRepeatSingleRound ==
    /\ ~repeat_arg => writes_made <= 1
    /\ (cmd_pc = "returned" /\ ~repeat_arg)
          => /\ io_log = <<io("write", command_arg), io("read", ret_command)>>
             /\ ret_command = res
             /\ ret_command \in Responses

\* the empty response of a timeout is returned after one round
C20_Witness ==
    /\ cmd_pc = "returned" /\ ~repeat_arg
    /\ good_response = "ok\r\n"
    /\ ret_command = ""
    /\ io_log = <<io("write", command_arg), io("read", "")>>

\* the open of the current oscilloscope operation has failed: control is
\* past the try and scope was not assigned
open_failed == osc_pc \in {"except", "body", "raised", "returned"} /\ scope = unbound

\* C13: in every oscilloscope operation whose open fails, the error is
\* printed and not raised at that point, control goes on after the try
\* statement with scope unbound, nothing is sent to the instrument, and the
\* only way on is the UnboundLocalError of the first statement that names
\* scope: the operation never returns.
C13_OpenFailure ==
    open_failed =>
       /\ scope_log = <<>>
       /\ osc_pc # "returned"
       /\ osc_ret = no_scope_return
       /\ (osc_pc = "except") => (osc_printed = <<>> /\ osc_error = "none")
       /\ (osc_pc = "body") =>
             /\ osc_printed = <<print_open_error>>
             /\ osc_error = "none"
             /\ ENABLED osc_unbound
             /\ ~ENABLED (osc_write \/ osc_query \/ osc_io_raises \/ osc_return)
       /\ (osc_pc = "raised") =>
             /\ osc_printed = <<print_open_error>>
             /\ osc_error = "UnboundLocalError"

\* get_value ended by UnboundLocalError after its open failed
C13_Witness ==
    /\ osc_op.name = "get_value"
    /\ open_failed
    /\ osc_pc = "raised"
    /\ osc_error = "UnboundLocalError"
    /\ osc_printed = <<print_open_error>>
    /\ scope_log = <<>>
    /\ n_scope_open = 0

\* the channel number the generator knows a channel letter by
ChannelNumber(c) == CASE c = "A" -> "1" [] c = "B" -> "2" [] c = "C" -> "3" [] c = "D" -> "4"

\* the settings of a channel, in the order set_channel is to send them
SettingKeywords ==
    <<":SYNC ", ":CMODE ", ":OUTPUT:AMPLITUDE ", ":DELAY ", ":WIDTH ", ":OUTPUT:MODE ", ":STATE ">>

\* texts that follow a keyword
SettingTexts ==
    {"T0", "CHA", "CHB", "CHC", "CHD", "CHCHA", "CHCHB", "CHCHC", "CHCHD", "T1", "T2",
     "SINGLE", "TTL", "3V", "2", "1", "ON", "OFF"}

\* cmd is the command of channel number n with the given keyword
IsSetting(cmd, n, keyword) ==
    \E text \in SettingTexts : cmd = ":PULSE" \o n \o keyword \o text \o "\n"

\* a call of command is under way
in_call == cmd_pc \in {"idle", "write", "read", "read_unlogged", "check", "exit"}

\* the commands of the operation so far: of the calls ended and the one under way
commands_so_far ==
    [i \in 1..Len(calls_log) |-> calls_log[i].command]
        \o (IF in_call THEN <<command_arg>> ELSE <<>>)

\* C14: pulse_generator.set_channel sends SYNC, CMODE, OUTPUT:AMPLITUDE,
\* DELAY, WIDTH, OUTPUT:MODE, STATE of the channel in this order; a command is
\* called for only when every command before it was returned with b"ok\r\n";
\* the seventh is STATE ON with enable and STATE OFF without; True is
\* returned only when all seven were acknowledged.
C14_FixedOrderAcked ==
    (op.cls = "pulse_generator") =>
       LET n == ChannelNumber(op.channel)
           sent == commands_so_far
       IN  /\ Len(sent) <= 7
           /\ \A i \in 1..Len(sent) : IsSetting(sent[i], n, SettingKeywords[i])
           /\ \A i \in 1..Len(calls_log) :
                 /\ calls_log[i].repeat
                 /\ (calls_log[i].outcome = "returned") => (calls_log[i].ret = "ok\r\n")
                 /\ (i < Len(sent)) => (calls_log[i].outcome = "returned")
           /\ \A k \in 1..Len(io_log) :
                 (io_log[k].op = "write") => (io_log[k].data = sent[Len(sent)])
           /\ (Len(sent) = 7) =>
                 (sent[7] = ":PULSE" \o n \o (IF op.enable THEN ":STATE ON\n" ELSE ":STATE OFF\n"))
           /\ op_ret.returned <=> (op_pc = "returned")
           /\ (op_pc = "returned") =>
                 /\ op_ret = op_returns("True", unbound)
                 /\ Len(calls_log) = 7
                 /\ \A i \in 1..7 : calls_log[i].outcome = "returned" /\ calls_log[i].ret = "ok\r\n"

\* channel C set with enable=False: returned True after seven acknowledged
\* commands, the last of them sent twice
C14_Witness ==
    /\ op.cls = "pulse_generator" /\ op.channel = "C" /\ ~op.enable
    /\ op_pc = "returned"
    /\ op_ret = op_returns("True", unbound)
    /\ Len(calls_log) = 7
    /\ calls_log[7].command = ":PULSE3:STATE OFF\n"
    /\ ReadsOf(io_log) = <<"", "ok\r\n">>

\* C15: BNC_505.set_channel honours enable: a call with enable=True that has
\* returned has sent STATE ON of the channel after the five settings, a call
\* with enable=False has not sent it.
C15_EnableHonoured ==
    (op.cls = "BNC_505" /\ op_pc = "returned") =>
       LET state_on == ":PULSE" \o (IF op.channel_n = 1 THEN "1" ELSE "2") \o ":STATE ON\n"
       IN  op.enable <=> (\E i \in 6..Len(calls_log) : calls_log[i].command = state_on)

\* C16: the first command of pulse_generator.set_channel is
\* ":PULSE<n>:SYNC <ref>\n" with n the number of the channel and ref the
\* documented value as the caller passed it.
C16_SyncUsesRefAsPassed ==
    (/\ op.cls = "pulse_generator"
     /\ op.ref \in {"T0", "CHA", "CHB", "CHC", "CHD"}
     /\ calls_log = <<>>
     /\ writes_made >= 1)
    => io_log[1] = io("write", ":PULSE" \o ChannelNumber(op.channel) \o ":SYNC " \o op.ref \o "\n")

\* the board a move selects and the step command it gives
BoardOf(name) == IF name \in {"back", "forward"} THEN "B1 \r" ELSE "B2 \r"
StepOf(name) == IF name \in {"back", "right"} THEN "-500\r" ELSE "+500\r"

\* the two axes of go_home and position, in the order they are driven:
\* board select and go command of each
FirstAxis(a) ==
    IF a.name = "go_home" THEN <<"B1 \r", "G+0 \r">> ELSE <<"B2 \r", "G-250 \r">>
SecondAxis(a) ==
    IF a.name = "go_home" THEN <<"B2 \r", "G+0 \r">> ELSE <<"B1 \r", "G1000 \r">>

\* call i of the operation has ended, was the status query and was answered b'Y\r'
StoppedAt(i) ==
    /\ i \in 1..Len(calls_log)
    /\ calls_log[i] = [command |-> "F \r", repeat |-> FALSE, outcome |-> "returned", ret |-> "Y\r"]

\* C18: the stepper moves block until the motor has stopped.  back, forward,
\* right and left call for the board select, then the step command, then
\* status queries only, and return (the answer to the step command) only
\* after a status query was answered b'Y\r', every query before it having been
\* answered otherwise.  In go_home and position the second axis is selected
\* only right after a status query answered b'Y\r' that follows the go
\* command of the first axis, the second go command only right after that
\* select, and the operation returns only after a last query answered b'Y\r'.
C18_MovesBlockUntilStopped ==
    (op.cls = "stepper_motor") =>
       LET sent == commands_so_far
           n == Len(sent)
           done == Len(calls_log)
       IN  /\ \A i \in 1..done : (i < n) => (calls_log[i].outcome = "returned")
           /\ op_ret.returned <=> (op_pc = "returned")
           /\ (op_pc = "returned") => (done >= 3 /\ StoppedAt(done))
           /\ (op.name \in {"back", "forward", "right", "left"}) =>
                 /\ (n >= 1) => (sent[1] = BoardOf(op.name))
                 /\ (n >= 2) => (sent[2] = StepOf(op.name))
                 /\ \A i \in 3..n : sent[i] = "F \r" /\ ~StoppedAt(i - 1)
                 /\ (op_pc = "returned") => (op_ret = op_returns("res", calls_log[2].ret))
           /\ (op.name \in {"go_home", "position"}) =>
                 /\ (n >= 1) => (sent[1] = FirstAxis(op)[1])
                 /\ (n >= 2) => (sent[2] = FirstAxis(op)[2])
                 /\ \A i \in 3..n :
                       \/ sent[i] = "F \r" /\ ~StoppedAt(i - 1)
                       \/ /\ sent[i] = SecondAxis(op)[1]
                          /\ StoppedAt(i - 1)
                          /\ \A j \in 3..(i - 1) : sent[j] = "F \r"
                       \/ /\ sent[i] = SecondAxis(op)[2]
                          /\ sent[i - 1] = SecondAxis(op)[1]
                 /\ (op_pc = "returned") =>
                       /\ op_ret = op_returns("None", unbound)
                       /\ \E i \in 4..(done - 2) :
                             sent[i] = SecondAxis(op)[1] /\ sent[i + 1] = SecondAxis(op)[2]

\* go_home returned: the first axis was asked twice before it had stopped
C18_Witness ==
    /\ op.name = "go_home"
    /\ op_pc = "returned"
    /\ commands_so_far = <<"B1 \r", "G+0 \r", "F \r", "F \r", "B2 \r", "G+0 \r", "F \r">>
    /\ calls_log[3].ret = "N\r"
    /\ StoppedAt(4)
    /\ StoppedAt(7)

\* the place in uno_log of the first line read that equals b"start\n"
\* (0: no such line yet)
HandshakeAt ==
    LET at == {k \in 1..Len(uno_log) : uno_log[k] = io("read", start_newline)}
    IN  IF at = {} THEN 0 ELSE CHOOSE k \in at : \A j \in at : k <= j

\* C19: start writes "start\n" before every line it reads until a line equal
\* to b"start\n" is read, and never after; from then on it only reads, the
\* lines b'', b"start", b'\r\n', b"a" are passed over, and the call returns
\* the decoding (counts, channels, channel counts) of the first other line;
\* the one serial channel it opened is closed when it returns.
C19_StartHandshake ==
    LET h == HandshakeAt
        n == Len(uno_log)
        shaken == IF h = 0 THEN n ELSE h
    IN  /\ \A k \in 1..shaken :
              IF k % 2 = 1 THEN uno_log[k] = io("write", start_newline)
                           ELSE uno_log[k].op = "read"
        /\ \A k \in (shaken + 1)..n : uno_log[k].op = "read"
        /\ \A k \in (shaken + 1)..(n - 1) : uno_log[k].data \in rejected_lines
        /\ n_open = (IF UNO = "open" THEN 1 ELSE 0)
        /\ (uno_pc \in {"idle", "returned", "raised"}) <=> (UNO # "open")
        /\ uno_ret.returned <=> (uno_pc = "returned")
        /\ (uno_pc = "returned") =>
              /\ h # 0 /\ n > h
              /\ uno_log[n].data \notin rejected_lines
              /\ uno_ret.counts = read_timestamps(uno_log[n].data, TRUE).ts_list
              /\ uno_ret.channels
                    = channel_cleaner(read_timestamps(uno_log[n].data, TRUE).event_channel_list).cha_clean
              /\ uno_ret.ch_counts
                    = channel_cleaner(read_timestamps(uno_log[n].data, TRUE).event_channel_list).counts
              /\ UNO = "closed"

\* start written twice, b"a" passed over, the next line decoded and returned
C19_Witness ==
    /\ uno_pc = "returned"
    /\ uno_log = <<io("write", start_newline), io("read", << >>),
                   io("write", start_newline), io("read", start_newline),
                   io("read", <<97>>), io("read", <<38, 0, 0, 0, 10>>)>>
    /\ uno_ret.counts = <<2, 10485760>>
    /\ uno_ret.channels = << <<"CH3", "CH2">>, << >> >>
    /\ uno_ret.ch_counts = <<0, 1, 1, 0>>
    /\ UNO = "closed" /\ n_open = 0

\* move i of the scan was along the line
AlongLine(i) == moves[i].move \in {"left", "right"}

\* the direction of the last move along the line before move i ("none": no such move)
RECURSIVE LastDirection(_)
LastDirection(i) ==
    IF i <= 1 THEN "none"
    ELSE IF AlongLine(i - 1) THEN moves[i - 1].move
    ELSE LastDirection(i - 1)

\* the other direction along the line; the first line of the pattern runs left
Opposite(d) == IF d = "left" THEN "right" ELSE "left"

\* move i > 1 goes on with the pattern: after a move along the line the same
\* move again until the limit of that direction is reached and then a
\* forward; after a forward a move along the line, opposite to the line before
ContinuesPattern(i) ==
    IF AlongLine(i - 1)
    THEN LET at_limit == \/ moves[i - 1].move = "left" /\ moves[i].position1 >= size
                         \/ moves[i - 1].move = "right" /\ moves[i].position1 <= 0
         IN  moves[i].move = (IF at_limit THEN "forward" ELSE moves[i - 1].move)
    ELSE moves[i].move = Opposite(LastDirection(i))

\* C17: from the homed position with fresh flags the calls of new_position
\* trace the serpentine pattern of the docstring: first a run of moves along
\* the line until the line limit is reached, then exactly one forward, then a
\* run the other way back to the other limit, then one forward, and so on.
C17_SerpentineFromHome ==
    from_home =>
       /\ (Len(moves) >= 1) => AlongLine(1)
       /\ \A i \in 2..Len(moves) : ContinuesPattern(i)

\* C21: every oscilloscope operation closes the session it opened before it
\* returns: when an operation has returned, no session opened by it or by
\* the operations before it is open.
C21_ScopeClosedOnReturn ==
    (osc_pc = "returned") => (n_scope_open = 0)

\* end when the latest call of new_position was made
end_before_latest ==
    IF Len(moves) <= 1 THEN FALSE ELSE moves[Len(moves) - 1].end

\* C22: in a scan from the homed position with fresh flags that calls
\* new_position(steps, size) until end is set, both motor positions stay
\* within 0..size.
C22_ScanWithinSize ==
    (from_home /\ ~end_before_latest) =>
        (motor1 \in 0..size /\ motor2 \in 0..size)

\* the same for the scans whose size is a whole number of steps
WithinSizeWhenStepsDivide ==
    (from_home /\ ~end_before_latest /\ size % steps = 0) =>
        (motor1 \in 0..size /\ motor2 \in 0..size)

\* this step is a call of new_position
new_position_called == Len(moves') = Len(moves) + 1

\* the move the latest call of new_position made
latest_move == moves[Len(moves)].move

\* this step moves one motor by steps, as the move the call recorded says
one_move_made ==
    LET made == moves'[Len(moves')].move
    IN  \/ made = "forward" /\ motor1' = motor1 + steps /\ motor2' = motor2
        \/ made = "left" /\ motor1' = motor1 /\ motor2' = motor2 + steps
        \/ made = "right" /\ motor1' = motor1 /\ motor2' = motor2 - steps

C24_EndMonotonic ==
    /\ []((Len(moves) = 0) => ~end)
    /\ [][end' = (end \/ (new_position_called /\ moves'[Len(moves')].position2 >= size))]_vars
    /\ [][(new_position_called /\ end) => one_move_made]_vars

\* end is still set after a call that read a motor-1 position below size,
\* the stage having been moved back by another operation
C24_Witness ==
    /\ Len(moves) >= 2
    /\ others > 0
    /\ moves[Len(moves) - 1].end
    /\ moves[Len(moves)].position2 < size
    /\ end

=============================================================================
